---- MODULE Spec2Model ----
(***************************************************************************)
(* Transaction lifecycle of tao::pq on one connection.                     *)
(*                                                                         *)
(* Transaction objects live at addresses; an object is owned through       *)
(* std::shared_ptr, by the caller's handles and by the m_previous member   *)
(* of the subtransactions created from it, and is destroyed when the last  *)
(* owner lets go.  Every operation is one action; an operation that throws *)
(* is an action whose outcome is the exception.                            *)
(***************************************************************************)
EXTENDS Integers, Sequences, FiniteSets, TLC

\* Number of addresses at which transaction objects can be allocated.
MaxTx == 3

\* The server's end, and the connection as a connection of a pool, are
\* followed for programs that hold at most this many transaction objects at
\* a time, and up to one savepoint more than that in one transaction block
\* at the server (a savepoint outlives a ROLLBACK TO).
MaxServed == 2

\* Number of connections a pool can construct, and of its concurrent callers.
MaxConn == 3
MaxCallers == 2

NULL == 0
Addr == 1..MaxTx
Conn == 1..MaxConn
Caller == 1..MaxCallers

IsolationLevels ==
    {"default_isolation_level", "serializable", "repeatable_read",
     "read_committed", "read_uncommitted"}

VARIABLES
    tx,                     \* Addr -> the transaction object at that address
    m_current_transaction,  \* basic_connection::m_current_transaction
    is_open,                \* basic_connection::is_open()
    handles,                \* addresses the caller holds a shared_ptr to
    stack,                  \* history: transactions entered and not yet exited
    resolved,               \* history: objects whose commit/rollback passed the check
    result,                 \* history: the last call, what it sent, how it ended
    server,                 \* the server's end of the session
    expect,                 \* history: the work each open transaction stands for
    conns,                  \* Conn -> the pool's connection with that number
    idle,                   \* the pool's idle connections
    lease,                  \* Caller -> the connection the caller has on lease
    discarded,              \* history: connections that failed validation
    pooled,                 \* history: the last call on the pool
    lease_held,             \* the caller holds the lease on this connection
    place,                  \* where the pool has this connection
    handed                  \* history: the last time the pool handed it out

vars == <<tx, m_current_transaction, is_open, handles, stack, resolved, result>>

\* The server's end and its history, which the specifications that do not
\* look at the server leave alone.
dbvars == <<server, expect>>

\* The pool, which the specifications of one connection leave alone.
poolvars == <<conns, idle, lease, discarded, pooled>>

\* The connection of the transactions seen as one of a pool's connections,
\* which the other specifications leave alone.
leasevars == <<lease_held, place, handed>>

----------------------------------------------------------------------------
\* Objects

NoTx == [live |-> FALSE, kind |-> "none", m_connection |-> FALSE, m_previous |-> NULL]

NewTx(k, prev) == [live |-> TRUE, kind |-> k, m_connection |-> TRUE, m_previous |-> prev]

BaseKinds == {"autocommit_transaction", "top_level_transaction"}
SubKinds == {"top_level_subtransaction", "nested_subtransaction"}
Kinds == BaseKinds \cup SubKinds

\* Statements: a verb and, for the savepoint statements, the identifier,
\* which the code prints from the object's address.
Stmt(verb, id) == [verb |-> verb, id |-> id]

UserStatement == Stmt("USER", NULL)

isolation_level_to_statement(il) ==
    CASE il = "default_isolation_level" -> "START TRANSACTION"
      [] il = "serializable" -> "START TRANSACTION ISOLATION LEVEL SERIALIZABLE"
      [] il = "repeatable_read" -> "START TRANSACTION ISOLATION LEVEL REPEATABLE READ"
      [] il = "read_committed" -> "START TRANSACTION ISOLATION LEVEL READ COMMITTED"
      [] il = "read_uncommitted" -> "START TRANSACTION ISOLATION LEVEL READ UNCOMMITTED"

\* Mutant: every savepoint gets the same name.
BeginStmt_one_name(k, a) ==
    CASE k = "top_level_subtransaction" -> Stmt("START TRANSACTION", NULL)
      [] k = "nested_subtransaction" -> Stmt("SAVEPOINT", 1)

\* The variant's begin statement (constructor bodies).
BeginStmt(k, a) ==
    CASE k = "top_level_subtransaction" -> Stmt("START TRANSACTION", NULL)
      [] k = "nested_subtransaction" -> Stmt("SAVEPOINT", a)

\* Mutant: no variant sends anything at commit.
CommitStmt_nothing(k, a) == Stmt("none", NULL)

\* The variant's v_commit statement; "none" for autocommit.
CommitStmt(k, a) ==
    CASE k = "autocommit_transaction" -> Stmt("none", NULL)
      [] k = "top_level_transaction" -> Stmt("COMMIT TRANSACTION", NULL)
      [] k = "top_level_subtransaction" -> Stmt("COMMIT TRANSACTION", NULL)
      [] k = "nested_subtransaction" -> Stmt("RELEASE SAVEPOINT", a)

\* Mutant: the nested subtransaction's v_rollback sends v_commit's statement.
RollbackStmt_releases(k, a) ==
    CASE k = "autocommit_transaction" -> Stmt("none", NULL)
      [] k = "top_level_transaction" -> Stmt("ROLLBACK TRANSACTION", NULL)
      [] k = "top_level_subtransaction" -> Stmt("ROLLBACK TRANSACTION", NULL)
      [] k = "nested_subtransaction" -> Stmt("RELEASE SAVEPOINT", a)

\* Mutant: the autocommit transaction rolls back at the server like a
\* top-level transaction.
RollbackStmt_autocommit_too(k, a) ==
    CASE k \in {"autocommit_transaction", "top_level_transaction",
                "top_level_subtransaction"} -> Stmt("ROLLBACK TRANSACTION", NULL)
      [] k = "nested_subtransaction" -> Stmt("ROLLBACK TO", a)

\* The variant's v_rollback statement; "none" for autocommit.
RollbackStmt(k, a) ==
    CASE k = "autocommit_transaction" -> Stmt("none", NULL)
      [] k = "top_level_transaction" -> Stmt("ROLLBACK TRANSACTION", NULL)
      [] k = "top_level_subtransaction" -> Stmt("ROLLBACK TRANSACTION", NULL)
      [] k = "nested_subtransaction" -> Stmt("ROLLBACK TO", a)

\* Mutant: no variant says it is direct.
v_is_direct_never(k) == FALSE

v_is_direct(k) == k = "autocommit_transaction"

----------------------------------------------------------------------------
\* History of entered transactions

Top(st) == IF st = <<>> THEN NULL ELSE st[Len(st)]

Below(st, t) ==
    IF \E i \in 1..Len(st) : st[i] = t
    THEN LET i == CHOOSE j \in 1..Len(st) : st[j] = t
         IN IF i = 1 THEN NULL ELSE st[i - 1]
    ELSE NULL

Without(st, t) == SelectSeq(st, LAMBDA x : x # t)

\* t has been entered: it is pushed.
Entered(s, t) == [s EXCEPT !.stack = Append(@, t)]

\* t has exited between s and s2: the event is recorded, t is popped.
Exited(s, t, s2) ==
    [s2 EXCEPT !.exits = Append(@, [t |-> t, kind |-> s.tx[t].kind,
                                    after |-> s2.cur,
                                    below |-> Below(s.stack, t)]),
               !.stack = Without(@, t)]

----------------------------------------------------------------------------
\* The running program: the heap, the connection's pointer, the caller's
\* handles, what this call has handed to the connection, the exception in
\* flight.

Start ==
    [tx |-> tx, cur |-> m_current_transaction, handles |-> handles,
     stack |-> stack, resolved |-> resolved,
     sent |-> <<>>, exits |-> <<>>, thrown |-> "none"]

Throw(s, e) == [s EXCEPT !.thrown = e]

\* Mutant: only asks whether the transaction still has its connection.
check_connection_only(s, t) == s.tx[t].m_connection

check_current_transaction(s, t) == s.tx[t].m_connection /\ t = s.cur

\* basic_connection::execute_params: the statement goes to the server, which
\* accepts it or not; on a connection that is not open it cannot succeed.
connection_execute_params(s, t, stmt, ok) ==
    LET good == ok /\ is_open
    IN [s EXCEPT !.sent = Append(@, [stmt |-> stmt, by |-> t, cur |-> s.cur,
                                     ok |-> good]),
                 !.thrown = IF good THEN "none" ELSE "server_error"]

execute_params(s, t, stmt, ok) ==
    IF ~check_current_transaction(s, t)
    THEN Throw(s, "order_error")
    ELSE connection_execute_params(s, t, stmt, ok)

\* basic_transaction::underlying_raw_ptr(): m_connection->underlying_raw_ptr().
\* With m_connection reset this goes through a null pointer, which is
\* undefined: the process dies there, or the read yields some value and the
\* call goes on.
underlying_raw_ptr(s, t, ub) ==
    IF s.tx[t].m_connection
    THEN s
    ELSE IF ub = "dies" THEN Throw(s, "crashed") ELSE s

\* transaction::to_traits over the arguments of execute(statement, as...):
\* an argument whose traits are constructed from (PGconn*, argument) asks the
\* transaction for the connection's PGconn*.
to_traits(s, t, pgconn_arg, ub) ==
    IF pgconn_arg THEN underlying_raw_ptr(s, t, ub) ELSE s

\* transaction::execute(statement, as...): the arguments are converted, then
\* execute_params; without arguments it is execute_params alone.
execute(s, t, pgconn_arg, ub, ok) ==
    LET s1 == to_traits(s, t, pgconn_arg, ub)
    IN IF s1.thrown # "none" THEN s1
       ELSE execute_params(s1, t, UserStatement, ok)

v_commit(s, t, ok) ==
    IF CommitStmt(s.tx[t].kind, t).verb = "none"
    THEN s
    ELSE execute_params(s, t, CommitStmt(s.tx[t].kind, t), ok)

v_rollback(s, t, ok) ==
    IF RollbackStmt(s.tx[t].kind, t).verb = "none"
    THEN s
    ELSE execute_params(s, t, RollbackStmt(s.tx[t].kind, t), ok)

\* Mutant: every variant resets the pointer to null.
v_reset_to_null(s, t) ==
    [s EXCEPT !.cur = NULL, !.tx[t].m_connection = FALSE]

\* transaction_base::v_reset and subtransaction_base::v_reset
v_reset(s, t) ==
    [s EXCEPT !.cur = IF s.tx[t].kind \in BaseKinds THEN NULL
                      ELSE s.tx[t].m_previous,
              !.tx[t].m_connection = FALSE]

\* History: a commit() or rollback() on t has passed the check.
Resolved(s, t) == [s EXCEPT !.resolved = @ \cup {t}]

\* Mutant: no catch, a failed v_commit skips v_reset.
commit_without_catch(s, t, ok) ==
    IF ~check_current_transaction(s, t)
    THEN Throw(s, "order_error")
    ELSE LET s1 == v_commit(Resolved(s, t), t, ok)
         IN IF s1.thrown # "none"
            THEN s1
            ELSE Exited(s1, t, v_reset(s1, t))

\* commit(): check, try v_commit, catch (...) { v_reset; throw; }, v_reset.
commit(s, t, ok) ==
    IF ~check_current_transaction(s, t)
    THEN Throw(s, "order_error")
    ELSE LET s1 == v_commit(Resolved(s, t), t, ok)
         IN IF s1.thrown # "none"
            THEN Exited(s1, t, v_reset(s1, t))
            ELSE Exited(s1, t, v_reset(s1, t))

\* rollback(): check, try v_rollback, catch (...) { v_reset; throw; }, v_reset.
rollback(s, t, ok) ==
    IF ~check_current_transaction(s, t)
    THEN Throw(s, "order_error")
    ELSE LET s1 == v_rollback(Resolved(s, t), t, ok)
         IN IF s1.thrown # "none"
            THEN Exited(s1, t, v_reset(s1, t))
            ELSE Exited(s1, t, v_reset(s1, t))

----------------------------------------------------------------------------
\* Constructors

\* Mutant: the constructor does not look at the current transaction.
transaction_base_ctor_unchecked(s, a, k) ==
    [s EXCEPT !.tx[a] = NewTx(k, NULL), !.cur = a]

\* transaction_base(connection): throws when a transaction is current.
transaction_base_ctor(s, a, k) ==
    IF s.cur # NULL
    THEN Throw(s, "order_error")
    ELSE [s EXCEPT !.tx[a] = NewTx(k, NULL), !.cur = a]

\* Mutant: the destructor leaves the connection's pointer alone.
transaction_base_dtor_keeps_pointer(s, t) == s

\* Mutant: the destructor resets the pointer whether or not the transaction
\* still has its connection.
transaction_base_dtor_unconditional(s, t) == [s EXCEPT !.cur = NULL]

\* ~transaction_base()
transaction_base_dtor(s, t) ==
    IF s.tx[t].m_connection THEN [s EXCEPT !.cur = NULL] ELSE s

\* subtransaction_base(connection): m_previous is the current transaction.
subtransaction_base_ctor(s, a, k) ==
    [s EXCEPT !.tx[a] = NewTx(k, s.cur), !.cur = a]

\* Mutant: the destructor leaves the connection's pointer alone.
subtransaction_base_dtor_keeps_pointer(s, t) == s

\* ~subtransaction_base()
subtransaction_base_dtor(s, t) ==
    IF s.tx[t].m_connection THEN [s EXCEPT !.cur = s.tx[t].m_previous] ELSE s

\* Mutant: the autocommit transaction skips the base constructor's check.
autocommit_transaction_ctor_unchecked(s, a) ==
    [s EXCEPT !.tx[a] = NewTx("autocommit_transaction", NULL), !.cur = a]

autocommit_transaction_ctor(s, a) ==
    transaction_base_ctor(s, a, "autocommit_transaction")

\* A constructor body that throws: the bases that were constructed are
\* destroyed, the most derived destructor is not run, no object results.
top_level_transaction_ctor(s, a, il, ok) ==
    LET s1 == transaction_base_ctor(s, a, "top_level_transaction")
    IN IF s1.thrown # "none"
       THEN s1
       ELSE LET s2 == execute_params(s1, a, Stmt(isolation_level_to_statement(il), NULL), ok)
            IN IF s2.thrown # "none"
               THEN [transaction_base_dtor(s2, a) EXCEPT !.tx[a] = NoTx]
               ELSE s2

\* Mutant: a constructor body that throws also runs the most derived
\* destructor, which rolls back.
subtransaction_ctor_rolls_back(s, a, k, ok) ==
    LET s1 == subtransaction_base_ctor(s, a, k)
        s2 == execute_params(s1, a, BeginStmt(k, a), ok)
        s3 == [rollback(s2, a, TRUE) EXCEPT !.thrown = s2.thrown]
    IN IF s2.thrown # "none"
       THEN [subtransaction_base_dtor(s3, a) EXCEPT !.tx[a] = NoTx]
       ELSE s2

\* top_level_subtransaction(connection) and nested_subtransaction(connection)
subtransaction_ctor(s, a, k, ok) ==
    LET s1 == subtransaction_base_ctor(s, a, k)
        s2 == execute_params(s1, a, BeginStmt(k, a), ok)
    IN IF s2.thrown # "none"
       THEN [subtransaction_base_dtor(s2, a) EXCEPT !.tx[a] = NoTx]
       ELSE s2

\* std::make_shared returned: the caller holds the handle.
Made(s, a) ==
    IF s.thrown # "none"
    THEN s
    ELSE Entered([s EXCEPT !.handles = @ \cup {a}], a)

\* connection::direct()
direct(s, a) == Made(autocommit_transaction_ctor(s, a), a)

\* connection::transaction(il)
transaction(s, a, il, ok) == Made(top_level_transaction_ctor(s, a, il, ok), a)

\* transaction::subtransaction()
subtransaction(s, t, a, ok) ==
    IF ~check_current_transaction(s, t)
    THEN Throw(s, "order_error")
    ELSE IF v_is_direct(s.tx[t].kind)
         THEN Made(subtransaction_ctor(s, a, "top_level_subtransaction", ok), a)
         ELSE Made(subtransaction_ctor(s, a, "nested_subtransaction", ok), a)

----------------------------------------------------------------------------
\* Destructors

\* Mutant: the destructor does not roll back.
rollback_in_destructor_skipped(s, t, ok) == s

\* Mutant: the destructor does not ask whether the connection is open.
rollback_in_destructor_unchecked(s, t, ok) ==
    IF s.tx[t].m_connection
    THEN [rollback(s, t, ok) EXCEPT !.thrown = s.thrown]
    ELSE s

\* Mutant: the destructor lets the rollback's exception out.
rollback_in_destructor_rethrows(s, t, ok) ==
    IF s.tx[t].m_connection /\ is_open
    THEN rollback(s, t, ok)
    ELSE s

\* ~top_level_transaction(), ~top_level_subtransaction(),
\* ~nested_subtransaction(): rollback when active on an open connection,
\* whatever it throws is swallowed.
rollback_in_destructor(s, t, ok) ==
    IF s.tx[t].m_connection /\ is_open
    THEN [rollback(s, t, ok) EXCEPT !.thrown = s.thrown]
    ELSE s

\* The destructors of the object at t, most derived first; then its storage
\* is released.
destructor(s, t, ok) ==
    LET k == s.tx[t].kind
        s1 == IF k = "autocommit_transaction" THEN s
              ELSE rollback_in_destructor(s, t, ok)
        s2 == IF k \in BaseKinds THEN transaction_base_dtor(s1, t)
              ELSE subtransaction_base_dtor(s1, t)
        s3 == IF s1.tx[t].m_connection THEN Exited(s1, t, s2) ELSE s2
    IN [s3 EXCEPT !.tx[t] = NoTx, !.resolved = @ \ {t}]

\* Mutant: only the caller's handles keep an object alive.
Owned_by_handles(s, p) == p \in s.handles

\* Some shared_ptr still owns the object at p.
Owned(s, p) ==
    \/ p \in s.handles
    \/ \E a \in Addr : s.tx[a].live /\ s.tx[a].m_previous = p

\* The last owner of t is gone: t is destroyed, its m_previous member is
\* released, and so on down the chain.
RECURSIVE Destroy(_, _, _)
Destroy(s, t, rbOk) ==
    LET p == s.tx[t].m_previous
        s1 == destructor(s, t, rbOk[t])
    IN IF p # NULL /\ ~Owned(s1, p) THEN Destroy(s1, p, rbOk) ELSE s1

\* The caller lets go of its handle to t.
release(s, t, rbOk) ==
    LET s1 == [s EXCEPT !.handles = @ \ {t}]
    IN IF Owned(s1, t) THEN s1 ELSE Destroy(s1, t, rbOk)

\* connection::execute(statement): direct()->execute(statement), the
\* temporary is destroyed at the end of the full expression.
connection_execute(s, a, ok, rbOk) ==
    LET s1 == autocommit_transaction_ctor(s, a)
    IN IF s1.thrown # "none"
       THEN s1
       ELSE Destroy(execute(Entered(s1, a), a, FALSE, "goes_on", ok), a, rbOk)

----------------------------------------------------------------------------
\* The server's end of the session: a transaction block is a stack of levels,
\* the block itself and one level per savepoint, each holding the effects of
\* the statements that ran in it.  An effect is marked with the address of
\* the transaction that executed the statement.

StartVerbs == {isolation_level_to_statement(il) : il \in IsolationLevels}

Level(name) == [name |-> name, effects |-> {}]

\* durable: what the last call made durable.
ServerIdle == [status |-> "idle", levels |-> <<>>, durable |-> {}]

Effects(levels, from) == UNION {levels[i].effects : i \in from..Len(levels)}

HasSavepoint(sv, n) == \E i \in 2..Len(sv.levels) : sv.levels[i].name = n

\* A name given twice refers to the savepoint established last.
Latest(sv, n) ==
    CHOOSE i \in 2..Len(sv.levels) :
        /\ sv.levels[i].name = n
        /\ \A j \in (i + 1)..Len(sv.levels) : sv.levels[j].name # n

\* Whether the server can carry the statement out.  In a block that a failed
\* statement has aborted only the statements that end the block or roll back
\* to a savepoint are carried out.
ServerAccepts(sv, stmt) ==
    CASE stmt.verb = "USER" -> sv.status # "aborted"
      [] stmt.verb \in StartVerbs -> sv.status # "aborted"
      [] stmt.verb = "SAVEPOINT" -> sv.status = "open"
      [] stmt.verb = "RELEASE SAVEPOINT" ->
             sv.status = "open" /\ HasSavepoint(sv, stmt.id)
      [] stmt.verb = "ROLLBACK TO" ->
             sv.status \in {"open", "aborted"} /\ HasSavepoint(sv, stmt.id)
      [] stmt.verb \in {"COMMIT TRANSACTION", "ROLLBACK TRANSACTION"} -> TRUE

\* The statement at the server.  A statement that fails has no effect, and
\* aborts the block it fails in.
ServerApply(sv, stmt, by, ok) ==
    LET n == Len(sv.levels)
    IN CASE ~ok ->
                [sv EXCEPT !.status = IF @ = "open" THEN "aborted" ELSE @]
         [] ok /\ stmt.verb = "USER" ->
                IF sv.status = "open"
                THEN [sv EXCEPT !.levels[n].effects = @ \cup {by}]
                ELSE [sv EXCEPT !.durable = @ \cup {by}]
         [] ok /\ stmt.verb \in StartVerbs ->
                IF sv.status = "open"
                THEN sv
                ELSE [sv EXCEPT !.status = "open", !.levels = <<Level(NULL)>>]
         [] ok /\ stmt.verb = "SAVEPOINT" ->
                [sv EXCEPT !.levels = Append(@, Level(stmt.id))]
         [] ok /\ stmt.verb = "RELEASE SAVEPOINT" ->
                LET i == Latest(sv, stmt.id)
                IN [sv EXCEPT !.levels =
                        [SubSeq(@, 1, i - 1) EXCEPT
                            ![i - 1].effects = @ \cup Effects(sv.levels, i)]]
         [] ok /\ stmt.verb = "ROLLBACK TO" ->
                LET i == Latest(sv, stmt.id)
                IN [sv EXCEPT !.status = "open",
                              !.levels = Append(SubSeq(@, 1, i - 1), Level(stmt.id))]
         [] ok /\ stmt.verb = "COMMIT TRANSACTION" ->
                [sv EXCEPT !.status = "idle", !.levels = <<>>,
                           !.durable = IF sv.status = "open"
                                       THEN @ \cup Effects(sv.levels, 1)
                                       ELSE @]
         [] ok /\ stmt.verb = "ROLLBACK TRANSACTION" ->
                [sv EXCEPT !.status = "idle", !.levels = <<>>]

\* The answer the caller got is one this server gives: a control statement is
\* accepted exactly when the session is up and the server can carry it out,
\* a statement of the caller's can fail for reasons of its own.
AnswerFits(sv, stmt, ok) ==
    IF stmt.verb = "USER"
    THEN ok => (is_open /\ ServerAccepts(sv, stmt))
    ELSE ok <=> (is_open /\ ServerAccepts(sv, stmt))

\* The statements of one call at the server, in the order they were sent.
RECURSIVE Serve(_, _, _)
Serve(sv, sent, i) ==
    IF i > Len(sent)
    THEN sv
    ELSE IF ~AnswerFits(sv, sent[i].stmt, sent[i].ok)
         THEN [sv EXCEPT !.status = "no such answer"]
         ELSE Serve(ServerApply(sv, sent[i].stmt, sent[i].by, sent[i].ok), sent, i + 1)

\* What the open transactions' data looks like to the next query.
Visible(sv) == IF sv.status = "open" THEN Effects(sv.levels, 1) ELSE {}

----------------------------------------------------------------------------
\* History: the work each transaction that has begun and not ended stands
\* for, as its caller sees it: the statements it executed and those of the
\* subtransactions it committed.  committed: the work the last call
\* committed for good.  undone: the work the last call gave up.  clean: no
\* statement has failed so far.

ExpectNone ==
    [work |-> [a \in Addr |-> {}], committed |-> {}, undone |-> {}, clean |-> TRUE]

\* The work the statements of a call add: a statement of the caller's that
\* the server carried out counts for the transaction that executed it, and
\* is committed at once when that is an autocommit transaction.
RECURSIVE Executed(_, _, _)
Executed(g, r, i) ==
    IF i > Len(r.sent)
    THEN g
    ELSE LET e == r.sent[i]
             g1 == IF e.stmt.verb # "USER" \/ ~e.ok THEN g
                   ELSE IF r.op = "connection_execute"
                           \/ r.before.obj.kind = "autocommit_transaction"
                        THEN [g EXCEPT !.committed = @ \cup {e.by}]
                        ELSE [g EXCEPT !.work[e.by] = @ \cup {e.by}]
         IN Executed(g1, r, i + 1)

\* The work after the transactions of a call have ended, innermost first: a
\* commit() that succeeded hands a subtransaction's work to the transaction
\* below it and commits a top-level one's for good; everything else that ends
\* a transaction gives its work up.
RECURSIVE Ended(_, _, _)
Ended(g, r, i) ==
    IF i > Len(r.exits)
    THEN g
    ELSE LET e == r.exits[i]
             g1 == IF r.op = "commit" /\ r.outcome = "none"
                   THEN IF e.kind = "nested_subtransaction"
                        THEN [g EXCEPT !.work[e.below] = @ \cup g.work[e.t],
                                       !.work[e.t] = {}]
                        ELSE [g EXCEPT !.committed = @ \cup g.work[e.t],
                                       !.work[e.t] = {}]
                   ELSE [g EXCEPT !.undone = @ \cup g.work[e.t], !.work[e.t] = {}]
         IN Ended(g1, r, i + 1)

\* The history after the call r.
Stands(g, r) ==
    LET g0 == [g EXCEPT !.committed = {}, !.undone = {},
                        !.clean = @ /\ \A i \in 1..Len(r.sent) : r.sent[i].ok]
    IN Ended(Executed(g0, r, 1), r, 1)

Expected == UNION {expect.work[a] : a \in Addr}

ServerInit ==
    /\ server = ServerIdle
    /\ expect = ExpectNone

\* The statements the call has sent arrive at the server.
ServerStep ==
    LET sv == Serve([server EXCEPT !.durable = {}], result'.sent, 1)
    IN /\ \A a \in Addr : tx'[a].live => a <= MaxServed
       /\ sv.status # "no such answer"
       /\ Len(sv.levels) <= MaxServed + 1
       /\ server' = sv
       /\ expect' = Stands(expect, result')

\* The session is lost: the server rolls back what was open.
SessionEnds ==
    /\ server' = ServerIdle
    /\ expect' = [ExpectNone EXCEPT !.clean = expect.clean]

----------------------------------------------------------------------------
\* The connection pool: connections are numbered in the order of their
\* construction, each caller holds at most one lease.

NoConn == [made |-> FALSE, open |-> FALSE]

NoCall == [op |-> "none", by |-> NULL, c |-> NULL, recycled |-> FALSE, valid |-> FALSE]

PoolInit ==
    /\ conns = [c \in Conn |-> NoConn]
    /\ idle = {}
    /\ lease = [k \in Caller |-> NULL]
    /\ discarded = {}
    /\ pooled = NoCall

\* Mutant: every connection passes validation.
v_is_valid_always(c) == TRUE

\* connection_pool::v_is_valid
v_is_valid(c) == conns[c].open

\* The connection v_create constructs next; none when the bound is reached.
v_create == IF \E c \in Conn : ~conns[c].made
            THEN CHOOSE c \in Conn : ~conns[c].made /\ \A d \in 1..(c - 1) : conns[d].made
            ELSE NULL

\* pool::get can hand c out: c is idle.
get(c) == c \in idle

\* Mutant: connection() hands out whatever connection the pool has made.
connection_of_any(c) == conns[c].made

\* connection_pool::connection
connection(c) == get(c)

\* acquire(): an idle connection when there is one, else a new one from the
\* recipe, whose construction can fail.
Acquire(k) ==
    /\ lease[k] = NULL
    /\ IF \E c \in Conn : connection(c)
       THEN \E c \in Conn :
                /\ connection(c)
                /\ idle' = idle \ {c}
                /\ lease' = [lease EXCEPT ![k] = c]
                /\ pooled' = [NoCall EXCEPT !.op = "acquire", !.by = k, !.c = c,
                                            !.recycled = TRUE]
                /\ UNCHANGED <<conns, discarded>>
       ELSE \E ok \in BOOLEAN :
                IF ok /\ v_create # NULL
                THEN /\ conns' = [conns EXCEPT ![v_create] = [made |-> TRUE, open |-> TRUE]]
                     /\ lease' = [lease EXCEPT ![k] = v_create]
                     /\ pooled' = [NoCall EXCEPT !.op = "acquire", !.by = k,
                                                 !.c = v_create]
                     /\ UNCHANGED <<idle, discarded>>
                ELSE /\ pooled' = [NoCall EXCEPT !.op = "acquire", !.by = k]
                     /\ UNCHANGED <<conns, idle, lease, discarded>>

\* The lease is released: the connection is validated and goes back to the
\* idle set, or is discarded.
ReleaseLease(k) ==
    /\ lease[k] # NULL
    /\ LET c == lease[k]
       IN /\ lease' = [lease EXCEPT ![k] = NULL]
          /\ pooled' = [NoCall EXCEPT !.op = "release", !.by = k, !.c = c,
                                      !.valid = conns[c].open]
          /\ IF v_is_valid(c)
             THEN /\ idle' = idle \cup {c}
                  /\ UNCHANGED <<conns, discarded>>
             ELSE /\ discarded' = discarded \cup {c}
                  /\ UNCHANGED <<conns, idle>>

\* A connection's session is closed or lost.
Closes(c) ==
    /\ conns[c].open
    /\ conns' = [conns EXCEPT ![c].open = FALSE]
    /\ UNCHANGED <<idle, lease, discarded, pooled>>

----------------------------------------------------------------------------
\* Actions

Free == {a \in Addr : ~tx[a].live}

\* Where make_shared puts the new object; none when all storage is taken.
Candidates == IF Free = {} THEN {NULL} ELSE Free

NoResult ==
    [op |-> "none", t |-> NULL, made |-> NULL, outcome |-> "none",
     sent |-> <<>>, exits |-> <<>>,
     before |-> [cur |-> NULL, obj |-> NoTx, resolved |-> FALSE, open |-> TRUE]]

Before(t) ==
    [cur |-> m_current_transaction,
     obj |-> IF t = NULL THEN NoTx ELSE tx[t],
     resolved |-> t \in resolved,
     open |-> is_open]

\* The process is running.
Running == result.outcome # "crashed"

Finish(op, t, a, s) ==
    /\ Running
    /\ tx' = s.tx
    /\ m_current_transaction' = s.cur
    /\ handles' = s.handles
    /\ stack' = s.stack
    /\ resolved' = s.resolved
    /\ result' = [op |-> op, t |-> t,
                  made |-> IF a # NULL /\ s.tx[a].live /\ ~tx[a].live THEN a ELSE NULL,
                  outcome |-> s.thrown, sent |-> s.sent, exits |-> s.exits,
                  before |-> Before(t)]
    /\ UNCHANGED is_open

Init ==
    /\ tx = [a \in Addr |-> NoTx]
    /\ m_current_transaction = NULL
    /\ is_open = TRUE
    /\ handles = {}
    /\ stack = <<>>
    /\ resolved = {}
    /\ result = NoResult

\* What the server can answer to a statement of this call: it accepts or
\* rejects one that reaches it on an open connection.
Answers(reaches) == IF reaches /\ is_open THEN BOOLEAN ELSE {FALSE}

\* t and the transactions it owns through m_previous, directly or not.
RECURSIVE Chain(_)
Chain(t) == IF t = NULL THEN {} ELSE {t} \cup Chain(tx[t].m_previous)

Direct ==
    \E a \in Candidates :
        /\ a # NULL \/ m_current_transaction # NULL
        /\ Finish("direct", NULL, a, direct(Start, a))

Transaction ==
    \E a \in Candidates, ok \in Answers(m_current_transaction = NULL) :
        \E il \in IF m_current_transaction = NULL THEN IsolationLevels
                   ELSE {"default_isolation_level"} :
            /\ a # NULL \/ m_current_transaction # NULL
            /\ Finish("transaction", NULL, a, transaction(Start, a, il, ok))

Subtransaction ==
    \E t \in handles, a \in Candidates :
        \E ok \in Answers(check_current_transaction(Start, t)) :
            /\ a # NULL \/ ~check_current_transaction(Start, t)
            /\ Finish("subtransaction", t, a, subtransaction(Start, t, a, ok))

\* execute(statement, as...) on t.  Whether an argument takes the PGconn*
\* changes what happens only when t has no connection any more.
Execute ==
    \E t \in handles :
        \E ok \in Answers(check_current_transaction(Start, t)),
           pgconn_arg \in IF tx[t].m_connection THEN {FALSE} ELSE BOOLEAN :
            \E ub \in IF pgconn_arg THEN {"dies", "goes_on"} ELSE {"goes_on"} :
                Finish("execute", t, NULL, execute(Start, t, pgconn_arg, ub, ok))

Commit ==
    \E t \in handles :
        \E ok \in Answers(check_current_transaction(Start, t)) :
            Finish("commit", t, NULL, commit(Start, t, ok))

Rollback ==
    \E t \in handles :
        \E ok \in Answers(check_current_transaction(Start, t)) :
            Finish("rollback", t, NULL, rollback(Start, t, ok))

\* The transactions whose destructor can send a rollback when the caller
\* drops its handle to t.
CanRollBack(t) ==
    IF is_open
    THEN {a \in Chain(t) : tx[a].m_connection /\ tx[a].kind # "autocommit_transaction"}
    ELSE {}

\* The caller drops its handle to t; the server rejects the rollbacks of
\* the transactions in rejected.
Release ==
    \E t \in handles :
        \E rejected \in SUBSET CanRollBack(t) :
            Finish("release", t, NULL,
                   release(Start, t, [x \in Addr |-> x \notin rejected]))

ConnectionExecute ==
    \E a \in Candidates, ok \in Answers(m_current_transaction = NULL) :
        /\ a # NULL \/ m_current_transaction # NULL
        /\ Finish("connection_execute", NULL, NULL,
                  connection_execute(Start, a, ok, [x \in Addr |-> TRUE]))

\* The session is lost: is_open() is false from now on.
ConnectionLost ==
    /\ Running
    /\ is_open
    /\ is_open' = FALSE
    /\ UNCHANGED <<tx, m_current_transaction, handles, stack, resolved, result>>

Next ==
    \/ Direct /\ UNCHANGED <<dbvars, poolvars, leasevars>>
    \/ Transaction /\ UNCHANGED <<dbvars, poolvars, leasevars>>
    \/ Subtransaction /\ UNCHANGED <<dbvars, poolvars, leasevars>>
    \/ Execute /\ UNCHANGED <<dbvars, poolvars, leasevars>>
    \/ Commit /\ UNCHANGED <<dbvars, poolvars, leasevars>>
    \/ Rollback /\ UNCHANGED <<dbvars, poolvars, leasevars>>
    \/ Release /\ UNCHANGED <<dbvars, poolvars, leasevars>>
    \/ ConnectionExecute /\ UNCHANGED <<dbvars, poolvars, leasevars>>
    \/ ConnectionLost /\ UNCHANGED <<dbvars, poolvars, leasevars>>

----------------------------------------------------------------------------
\* The connection as a connection of a pool.  The lease is the shared_ptr the
\* pool hands out; direct() and transaction() give each transaction a
\* shared_ptr to the same connection (shared_from_this), which it keeps in
\* m_connection until v_reset or its destruction.  The connection goes back
\* to the pool when its last owner lets go.

NoHandOut ==
    [op |-> "none", recycled |-> FALSE, cur |-> NULL, holders |-> {},
     earlier |-> {}, used |-> FALSE]

LeaseInit ==
    /\ lease_held = FALSE
    /\ place = "unmade"
    /\ handed = NoHandOut

Live == {a \in Addr : tx[a].live}

\* The transactions that own the connection through m_connection.
Holders == {a \in Live : tx[a].m_connection}

\* Mutant: the connection goes back when the lease is released.
LastOwnerGone_lease_only(held) == ~held

\* No shared_ptr to the connection is left after this step.
LastOwnerGone(held) == ~held /\ Holders' = {}

\* The return path: the connection is validated, kept when it is open,
\* discarded when it is not.
ReturnPath(held) ==
    place' = IF place = "out" /\ LastOwnerGone(held)
             THEN IF is_open' THEN "idle" ELSE "discarded"
             ELSE place

\* The pool hands the connection out: an idle one, or a new one when it
\* has made none.
HandOut(op) ==
    /\ Running
    /\ place \in {"unmade", "idle"}
    /\ handed' = [op |-> op, recycled |-> place = "idle",
                  cur |-> m_current_transaction, holders |-> Holders,
                  earlier |-> Live, used |-> FALSE]

\* connection_pool::connection()
LeaseAcquire ==
    /\ HandOut("connection")
    /\ lease_held' = TRUE
    /\ place' = "out"
    /\ UNCHANGED vars

\* The caller lets go of the lease.
LeaseRelease ==
    /\ Running
    /\ lease_held
    /\ UNCHANGED <<vars, handed>>
    /\ lease_held' = FALSE
    /\ ReturnPath(FALSE)

\* A call on the leased connection or on one of its transactions; a
\* transaction that lets go of the connection may be its last owner.
OnLease(call) ==
    /\ call
    /\ \A a \in Addr : tx'[a].live => a <= MaxServed
    /\ ReturnPath(lease_held)
    /\ handed' = [handed EXCEPT !.earlier = @ \cap Live', !.used = TRUE]
    /\ UNCHANGED lease_held

\* connection_pool::execute(statement):
\* connection()->direct()->execute(statement); the temporaries, the
\* transaction and the lease, are destroyed at the end of the expression.
PoolExecute ==
    \E a \in Candidates, ok \in Answers(m_current_transaction = NULL) :
        /\ a # NULL \/ m_current_transaction # NULL
        /\ HandOut("execute")
        /\ Finish("pool_execute", NULL, NULL,
                  connection_execute(Start, a, ok, [x \in Addr |-> TRUE]))
        /\ a = NULL \/ a <= MaxServed
        /\ place' = IF Holders' = {}
                    THEN IF is_open' THEN "idle" ELSE "discarded"
                    ELSE "out"
        /\ UNCHANGED lease_held

\* The state after construction: the connection, the server's end of its
\* session, the pool.
Constructed == Init /\ ServerInit /\ PoolInit /\ LeaseInit

Spec == Constructed /\ [][Next]_<<vars, dbvars, poolvars, leasevars>>

\* The same program with the server's end of the session followed.
DbNext ==
    \/ Direct /\ ServerStep /\ UNCHANGED <<poolvars, leasevars>>
    \/ Transaction /\ ServerStep /\ UNCHANGED <<poolvars, leasevars>>
    \/ Subtransaction /\ ServerStep /\ UNCHANGED <<poolvars, leasevars>>
    \/ Execute /\ ServerStep /\ UNCHANGED <<poolvars, leasevars>>
    \/ Commit /\ ServerStep /\ UNCHANGED <<poolvars, leasevars>>
    \/ Rollback /\ ServerStep /\ UNCHANGED <<poolvars, leasevars>>
    \/ Release /\ ServerStep /\ UNCHANGED <<poolvars, leasevars>>
    \/ ConnectionExecute /\ ServerStep /\ UNCHANGED <<poolvars, leasevars>>
    \/ ConnectionLost /\ SessionEnds /\ UNCHANGED <<poolvars, leasevars>>

DbSpec == Constructed /\ [][DbNext]_<<vars, dbvars, poolvars, leasevars>>

\* The pool and its callers.
PoolNext ==
    \/ \E k \in Caller : Acquire(k) /\ UNCHANGED <<vars, dbvars, leasevars>>
    \/ \E k \in Caller : ReleaseLease(k) /\ UNCHANGED <<vars, dbvars, leasevars>>
    \/ \E c \in Conn : Closes(c) /\ UNCHANGED <<vars, dbvars, leasevars>>

PoolSpec == Constructed /\ [][PoolNext]_<<vars, dbvars, poolvars, leasevars>>

\* One connection of a pool, its leases and the transactions on it.  The
\* connection's own operations need the lease; a transaction is used through
\* the caller's handle to it.
LeaseNext ==
    \/ LeaseAcquire /\ UNCHANGED <<dbvars, poolvars>>
    \/ LeaseRelease /\ UNCHANGED <<dbvars, poolvars>>
    \/ PoolExecute /\ UNCHANGED <<dbvars, poolvars>>
    \/ OnLease(lease_held /\ Direct) /\ UNCHANGED <<dbvars, poolvars>>
    \/ OnLease(lease_held /\ Transaction) /\ UNCHANGED <<dbvars, poolvars>>
    \/ OnLease(lease_held /\ ConnectionExecute) /\ UNCHANGED <<dbvars, poolvars>>
    \/ OnLease(Subtransaction) /\ UNCHANGED <<dbvars, poolvars>>
    \/ OnLease(Execute) /\ UNCHANGED <<dbvars, poolvars>>
    \/ OnLease(Commit) /\ UNCHANGED <<dbvars, poolvars>>
    \/ OnLease(Rollback) /\ UNCHANGED <<dbvars, poolvars>>
    \/ OnLease(Release) /\ UNCHANGED <<dbvars, poolvars>>
    \/ ConnectionLost /\ UNCHANGED <<dbvars, poolvars, leasevars>>

LeaseSpec == Constructed /\ [][LeaseNext]_<<vars, dbvars, poolvars, leasevars>>

----------------------------------------------------------------------------
\* The last call, read back

Op == result.op
Target == result.t
WasCurrent == result.before.cur
TargetBefore == result.before.obj

\* The call was made on a transaction that had passed no commit/rollback and
\* was the connection's current transaction.
OnCurrent == Target # NULL /\ WasCurrent = Target /\ TargetBefore.m_connection

FailedInOrder ==
    /\ result.outcome = "order_error"
    /\ result.sent = <<>>
    /\ result.made = NULL

SentBy(t) == {i \in 1..Len(result.sent) : result.sent[i].by = t}

----------------------------------------------------------------------------
\* C1: connection.transaction(il) on a connection whose current transaction
\* is not null fails with the order error, sends nothing, creates nothing and
\* leaves the current-transaction pointer as it was.
C1_SecondTopLevelFails ==
    (Op = "transaction" /\ WasCurrent # NULL)
        => /\ FailedInOrder
           /\ m_current_transaction = WasCurrent

C1_Witness ==
    /\ Op = "transaction"
    /\ WasCurrent # NULL
    /\ tx[WasCurrent].kind = "top_level_transaction"
    /\ result.outcome = "order_error"

\* C2: commit() and rollback() on a transaction that is not the current one
\* fail with the order error, send nothing, leave the current-transaction
\* pointer and the transaction itself as they were.
C2_NotCurrentCommitFails ==
    (Op \in {"commit", "rollback"} /\ Target # WasCurrent)
        => /\ FailedInOrder
           /\ m_current_transaction = WasCurrent
           /\ tx[Target] = TargetBefore

C2_Witness ==
    /\ Op \in {"commit", "rollback"}
    /\ Target # WasCurrent
    /\ WasCurrent # NULL
    /\ tx[WasCurrent].m_previous = Target
    /\ tx[Target].m_connection
    /\ result.outcome = "order_error"

\* C3: the current transaction is always the innermost transaction entered and
\* not yet exited, so after the subtransactions above a top-level transaction
\* have exited it is current again; and every exit of a subtransaction makes
\* current the transaction that was current when it was entered.
C3_ExitRestoresPrevious ==
    /\ m_current_transaction = Top(stack)
    /\ \A i \in 1..Len(result.exits) :
           result.exits[i].kind \in SubKinds
               => result.exits[i].after = result.exits[i].below

C3_Witness ==
    /\ Len(result.exits) = 2
    /\ \A i \in 1..2 : result.exits[i].kind = "nested_subtransaction"
    /\ Len(stack) = 1
    /\ m_current_transaction = stack[1]
    /\ tx[stack[1]].kind = "top_level_transaction"

\* C4: when the statement of commit() or rollback() on the current
\* transaction fails, the pointer is the transaction's previous transaction
\* (null for autocommit and top-level), the transaction is terminal, and the
\* server's error is what the caller gets.
C4_CleanupOnFailure ==
    (Op \in {"commit", "rollback"} /\ OnCurrent
        /\ \E i \in 1..Len(result.sent) : ~result.sent[i].ok)
        => /\ m_current_transaction =
                  (IF TargetBefore.kind \in BaseKinds THEN NULL
                   ELSE TargetBefore.m_previous)
           /\ tx[Target].live
           /\ ~tx[Target].m_connection
           /\ result.outcome = "server_error"

C4_Witness ==
    /\ Op = "commit"
    /\ OnCurrent
    /\ TargetBefore.kind = "nested_subtransaction"
    /\ Len(result.sent) = 1
    /\ ~result.sent[1].ok
    /\ result.before.open

\* C5: a top-level transaction, top-level subtransaction or nested
\* subtransaction destroyed while active on an open connection sends its
\* rollback statement exactly once, nothing escapes the destructor, and the
\* transaction is not the current transaction afterwards.
C5_DestructorRollsBack ==
    (Op = "release" /\ result.before.open)
        => /\ result.outcome = "none"
           /\ \A i \in 1..Len(result.exits) :
                  LET e == result.exits[i]
                  IN e.kind # "autocommit_transaction"
                         => /\ Cardinality(SentBy(e.t)) = 1
                            /\ \A j \in SentBy(e.t) :
                                   result.sent[j].stmt = RollbackStmt(e.kind, e.t)
                            /\ ~tx[e.t].live
                            /\ m_current_transaction # e.t

C5_Witness ==
    /\ Op = "release"
    /\ result.before.open
    /\ Len(result.exits) = 1
    /\ result.exits[1].kind = "top_level_subtransaction"
    /\ Len(result.sent) = 1
    /\ ~result.sent[1].ok

\* C6: once a commit() or rollback() on a transaction has passed the check,
\* the transaction has no connection any more, and every later commit(),
\* rollback(), execute() and subtransaction() on it fails with the order
\* error and sends nothing.
C6_TerminalIsAbsorbing ==
    /\ \A a \in resolved : tx[a].live /\ ~tx[a].m_connection
    /\ (Op \in {"commit", "rollback", "execute", "subtransaction"}
            /\ result.before.resolved)
           => /\ FailedInOrder
              /\ tx[Target] = TargetBefore

C6_Witness ==
    /\ Op \in {"commit", "rollback", "execute", "subtransaction"}
    /\ result.before.resolved
    /\ TargetBefore.kind = "top_level_transaction"
    /\ m_current_transaction = NULL
    /\ result.outcome = "order_error"

\* C7: every statement handed to the connection is handed over by the
\* transaction that is the current transaction at that moment, and execute()
\* on a transaction that is not current fails with the order error before
\* anything is sent.
C7_OnlyCurrentSends ==
    /\ \A i \in 1..Len(result.sent) : result.sent[i].by = result.sent[i].cur
    /\ (Op = "execute" /\ ~OnCurrent) => FailedInOrder

C7_Witness ==
    /\ Op = "execute"
    /\ Target # WasCurrent
    /\ TargetBefore.m_connection
    /\ WasCurrent # NULL
    /\ result.outcome = "order_error"

\* C8 as stated: direct() on an open connection constructs an autocommit
\* transaction whatever the connection's current transaction is.
C8_DirectAlwaysConstructs ==
    (Op = "direct" /\ result.before.open)
        => /\ result.outcome = "none"
           /\ result.made # NULL

\* C8 amended: direct() constructs an autocommit transaction, which becomes
\* current, exactly when the connection has no current transaction; with a
\* current transaction it fails with the order error and changes nothing.
C8_DirectNeedsNoCurrent ==
    Op = "direct"
        => IF WasCurrent = NULL
           THEN /\ result.outcome = "none"
                /\ result.made # NULL
                /\ result.sent = <<>>
                /\ m_current_transaction = result.made
                /\ tx[result.made] = NewTx("autocommit_transaction", NULL)
           ELSE /\ FailedInOrder
                /\ m_current_transaction = WasCurrent

C8_Witness ==
    /\ Op = "direct"
    /\ result.before.open
    /\ WasCurrent # NULL
    /\ tx[WasCurrent].kind = "top_level_transaction"
    /\ result.outcome = "order_error"

\* C9: subtransaction() on a transaction that is not current fails with the
\* order error and creates nothing; on the current transaction it sends START
\* TRANSACTION exactly when the caller is an autocommit transaction and
\* SAVEPOINT otherwise, and the subtransaction it returns is of the matching
\* variant, is current and has the caller as its previous transaction.
C9_Subtransaction ==
    Op = "subtransaction"
        => IF ~OnCurrent
           THEN FailedInOrder /\ m_current_transaction = WasCurrent
           ELSE /\ Len(result.sent) = 1
                /\ result.sent[1].stmt.verb =
                       (IF TargetBefore.kind = "autocommit_transaction"
                        THEN "START TRANSACTION" ELSE "SAVEPOINT")
                /\ result.outcome = "none"
                       => /\ result.made # NULL
                          /\ result.sent[1].by = result.made
                          /\ m_current_transaction = result.made
                          /\ tx[result.made] =
                                 NewTx(IF TargetBefore.kind = "autocommit_transaction"
                                       THEN "top_level_subtransaction"
                                       ELSE "nested_subtransaction", Target)

C9_Witness ==
    /\ Op = "subtransaction"
    /\ OnCurrent
    /\ TargetBefore.kind = "nested_subtransaction"
    /\ result.outcome = "none"
    /\ result.made # NULL
    /\ result.sent[1].stmt = Stmt("SAVEPOINT", result.made)

\* C10 as stated: once the connection is not open, every execute(), commit(),
\* rollback() and subtransaction() on an active transaction fails, for every
\* variant.
C10_EveryOperationFailsWhenClosed ==
    (Op \in {"execute", "commit", "rollback", "subtransaction"}
        /\ ~result.before.open /\ TargetBefore.m_connection)
        => result.outcome # "none"

\* C10 amended: once the connection is not open, execute() and
\* subtransaction() on an active transaction fail for every variant, and
\* commit() and rollback() fail for every variant but the autocommit
\* transaction, whose commit() and rollback(), when it is current, send
\* nothing and succeed.
C10_FailsWhenClosedButAutocommitCommit ==
    (Op \in {"execute", "commit", "rollback", "subtransaction"}
        /\ ~result.before.open /\ TargetBefore.m_connection)
        => IF Op \in {"commit", "rollback"} /\ OnCurrent
              /\ TargetBefore.kind = "autocommit_transaction"
           THEN result.outcome = "none" /\ result.sent = <<>>
           ELSE result.outcome # "none"

C10_Witness ==
    /\ Op = "commit"
    /\ ~result.before.open
    /\ OnCurrent
    /\ TargetBefore.kind = "top_level_transaction"
    /\ result.outcome = "server_error"

\* C11: an autocommit transaction sends no control statement: direct() sends
\* nothing, its commit() and rollback() send nothing, its destruction sends
\* nothing, and connection.execute() sends the caller's statement only;
\* commit() and rollback() on it when it is current succeed, leave it
\* terminal and the connection's pointer null.
C11_AutocommitSendsNothing ==
    /\ Op = "direct" => result.sent = <<>>
    /\ Op = "connection_execute"
           => \A i \in 1..Len(result.sent) : result.sent[i].stmt = UserStatement
    /\ (Op \in {"commit", "rollback", "release"}
            /\ TargetBefore.kind = "autocommit_transaction")
           => result.sent = <<>>
    /\ Op = "release"
           => \A i \in 1..Len(result.exits) :
                  result.exits[i].kind = "autocommit_transaction"
                      => SentBy(result.exits[i].t) = {}
    /\ (Op \in {"commit", "rollback"} /\ OnCurrent
            /\ TargetBefore.kind = "autocommit_transaction")
           => /\ result.outcome = "none"
              /\ tx[Target].live
              /\ ~tx[Target].m_connection
              /\ m_current_transaction = NULL

C11_Witness ==
    /\ Op = "rollback"
    /\ OnCurrent
    /\ TargetBefore.kind = "autocommit_transaction"
    /\ result.before.open
    /\ result.outcome = "none"
    /\ result.sent = <<>>
    /\ m_current_transaction = NULL

\* C12: connection.execute(statement) on a connection with no current
\* transaction hands exactly that statement to the connection, nothing before
\* and nothing after it, and the current-transaction pointer is null again
\* afterwards, whether the server accepted the statement or not.
C12_ConnectionExecute ==
    (Op = "connection_execute" /\ WasCurrent = NULL)
        => /\ Len(result.sent) = 1
           /\ result.sent[1].stmt = UserStatement
           /\ result.outcome = (IF result.sent[1].ok THEN "none" ELSE "server_error")
           /\ m_current_transaction = NULL
           /\ \A a \in Addr : tx[a].live => a \in resolved

C12_Witness ==
    /\ Op = "connection_execute"
    /\ WasCurrent = NULL
    /\ result.before.open
    /\ Len(result.sent) = 1
    /\ ~result.sent[1].ok
    /\ result.outcome = "server_error"
    /\ \E a \in resolved : tx[a].kind = "top_level_transaction"
    /\ m_current_transaction = NULL

\* C13: on a connection that is open, when rollback() on a nested
\* subtransaction has been carried out, the transaction block at the server
\* holds the work of the transactions that
\* enclose it and nothing of what ran inside it, and nothing has been made
\* durable; and when commit() on a top-level transaction or top-level
\* subtransaction has been carried out with no statement failed, what the
\* server made durable is the work that transaction stood for, which holds
\* nothing of a subtransaction that was rolled back.
C13_RollbackUndoesSubtransaction ==
    /\ (Op = "rollback" /\ OnCurrent
            /\ TargetBefore.kind = "nested_subtransaction"
            /\ result.outcome = "none" /\ is_open)
           => /\ server.status = "open"
              /\ Visible(server) = Expected
              /\ expect.work[Target] = {}
              /\ server.durable = {}
    /\ (Op = "commit" /\ OnCurrent
            /\ TargetBefore.kind \in {"top_level_transaction", "top_level_subtransaction"}
            /\ result.outcome = "none" /\ expect.clean /\ is_open)
           => /\ server.status = "idle"
              /\ server.durable = expect.committed

\* insert 1 in the outer transaction, insert 2 in a nested subtransaction,
\* roll the subtransaction back: the block holds {1}.
C13_Witness ==
    /\ Op = "rollback"
    /\ OnCurrent
    /\ TargetBefore.kind = "nested_subtransaction"
    /\ result.outcome = "none"
    /\ expect.clean
    /\ m_current_transaction # NULL
    /\ tx[m_current_transaction].kind = "top_level_transaction"
    /\ Visible(server) = {m_current_transaction}
    /\ expect.undone = {Target}
    /\ Len(server.levels) = 2
    /\ server.levels[2] = Level(Target)

\* C14: when the caller lets go of a transaction on an open connection and
\* top-level transactions, top-level subtransactions or nested subtransactions
\* are destroyed active, the server has carried out their rollbacks: nothing
\* of the work they stood for, their committed subtransactions' included, is
\* left in the block or has been made durable, the block holds the work of
\* the transactions still open, and it is closed when a top-level transaction
\* or top-level subtransaction was among them.
C14_ScopeExitLeavesNothing ==
    (Op = "release" /\ result.before.open /\ is_open
        /\ \E i \in 1..Len(result.exits) :
               result.exits[i].kind # "autocommit_transaction")
        => /\ server.status \in {"idle", "open"}
           /\ Visible(server) = Expected
           /\ server.durable = {}
           /\ \A i \in 1..Len(result.exits) :
                  /\ expect.work[result.exits[i].t] = {}
                  /\ result.exits[i].kind \in
                         {"top_level_transaction", "top_level_subtransaction"}
                         => server.status = "idle"

\* A top-level transaction that executed a statement itself and committed a
\* subtransaction that executed one is destroyed active.
C14_Witness ==
    /\ Op = "release"
    /\ result.before.open
    /\ is_open
    /\ Len(result.exits) = 1
    /\ result.exits[1].kind = "top_level_transaction"
    /\ Cardinality(expect.undone) = 2
    /\ Target \in expect.undone
    /\ server = ServerIdle

\* The nested subtransactions that have begun and passed no commit() or
\* rollback().
UnresolvedNested ==
    {a \in Addr : /\ tx[a].live
                  /\ tx[a].kind = "nested_subtransaction"
                  /\ tx[a].m_connection}

\* C15: two nested subtransactions that are unresolved at the same time have
\* sent SAVEPOINT with different identifiers, whatever addresses were freed
\* and taken again before; a SAVEPOINT names the identifier of the object
\* under construction, and the RELEASE SAVEPOINT or ROLLBACK TO of a nested
\* subtransaction names the identifier its SAVEPOINT named.
C15_SavepointIdentifiers ==
    /\ \A a, b \in UnresolvedNested :
           a # b => BeginStmt(tx[a].kind, a).id # BeginStmt(tx[b].kind, b).id
    /\ \A i \in 1..Len(result.sent) :
           LET e == result.sent[i]
           IN /\ e.stmt.verb = "SAVEPOINT"
                     => /\ e.stmt = BeginStmt("nested_subtransaction", e.by)
                        /\ e.ok => result.made = e.by
              /\ e.stmt.verb \in {"RELEASE SAVEPOINT", "ROLLBACK TO"}
                     => e.stmt.id = BeginStmt("nested_subtransaction", e.by).id

\* A nested subtransaction inside a nested subtransaction commits.
C15_Witness ==
    /\ Op = "commit"
    /\ OnCurrent
    /\ Len(result.sent) = 1
    /\ result.sent[1].stmt = Stmt("RELEASE SAVEPOINT", Target)
    /\ result.sent[1].ok
    /\ m_current_transaction \in UnresolvedNested
    /\ m_current_transaction # Target

\* C16: no connection is on lease to two callers, and a connection on lease
\* is not in the idle set; a connection handed out by acquire() was idle or
\* is new, so one that was handed out is handed out again only after its
\* lease has been released and it has been put back.
C16_NoDoubleLease ==
    /\ \A k1, k2 \in Caller :
           (k1 # k2 /\ lease[k1] # NULL) => lease[k1] # lease[k2]
    /\ \A k \in Caller : lease[k] # NULL => lease[k] \notin idle
    /\ (pooled.op = "acquire" /\ pooled.c # NULL)
           => /\ lease[pooled.by] = pooled.c
              /\ \A k \in Caller \ {pooled.by} : lease[k] # pooled.c

\* A caller acquires a connection that another caller had on lease and
\* released, while the other caller holds a different connection.
C16_Witness ==
    /\ pooled.op = "acquire"
    /\ pooled.recycled
    /\ pooled.c = 1
    /\ \E k \in Caller : k # pooled.by /\ lease[k] = 2

\* C17: a released connection that is open goes back to the idle set, one
\* that is not open is discarded; a discarded connection is never idle and
\* never on lease again, and what acquire() hands out is an idle connection
\* or a new one.
C17_ValidatedOnRelease ==
    /\ pooled.op = "release"
           => IF pooled.valid
              THEN pooled.c \in idle /\ pooled.c \notin discarded
              ELSE pooled.c \in discarded
    /\ discarded \cap idle = {}
    /\ \A k \in Caller : lease[k] \notin discarded
    /\ (pooled.op = "acquire" /\ pooled.c # NULL)
           => /\ pooled.c \notin discarded
              /\ conns[pooled.c].made

\* After a connection that was closed on lease has been discarded, acquire()
\* constructs a new one.
C17_Witness ==
    /\ pooled.op = "acquire"
    /\ pooled.c # NULL
    /\ ~pooled.recycled
    /\ discarded # {}
    /\ idle = {}
    /\ \A k \in Caller : k # pooled.by => lease[k] = NULL

----------------------------------------------------------------------------
\* C18: in every reachable state the connection's current-transaction
\* pointer is null or refers to a transaction object that exists, still has
\* its connection and has neither been committed nor rolled back; it never
\* refers to a destroyed or terminal transaction.
C18_PointerIsValid ==
    \/ m_current_transaction = NULL
    \/ /\ tx[m_current_transaction].live
       /\ tx[m_current_transaction].m_connection
       /\ m_current_transaction \notin resolved

\* A subtransaction has been destroyed by the caller dropping its handle, and
\* the pointer is back at the transaction it was created from.
C18_Witness ==
    /\ Op = "release"
    /\ TargetBefore.kind \in SubKinds
    /\ TargetBefore.m_connection
    /\ ~tx[Target].live
    /\ m_current_transaction # NULL
    /\ m_current_transaction = TargetBefore.m_previous

----------------------------------------------------------------------------
\* C19: when the begin statement sent by a constructor fails (START
\* TRANSACTION for a top-level transaction or a top-level subtransaction,
\* SAVEPOINT for a nested subtransaction), the caller gets the error, no
\* transaction object results, no rollback statement is sent for it, and the
\* current-transaction pointer is what it was before the call: null for a
\* top-level transaction, the still-active parent for a subtransaction.
C19_BeginFails ==
    (Op \in {"transaction", "subtransaction"}
        /\ result.sent # <<>> /\ ~result.sent[1].ok)
        => /\ result.outcome = "server_error"
           /\ result.made = NULL
           /\ ~tx[result.sent[1].by].live
           /\ result.sent[1].by \notin handles
           /\ Len(result.sent) = 1
           /\ result.sent[1].stmt.verb \in StartVerbs \cup {"SAVEPOINT"}
           /\ m_current_transaction = WasCurrent
           /\ Op = "transaction"
                  => /\ m_current_transaction = NULL
                     /\ result.sent[1].stmt.verb \in StartVerbs
           /\ Op = "subtransaction"
                  => /\ m_current_transaction = Target
                     /\ tx[Target] = TargetBefore
                     /\ tx[Target].m_connection
                     /\ Target \notin resolved
                     /\ result.sent[1].stmt.verb =
                            (IF TargetBefore.kind = "autocommit_transaction"
                             THEN "START TRANSACTION" ELSE "SAVEPOINT")

\* The server rejected the SAVEPOINT of a subtransaction created from a
\* nested subtransaction, on an open connection.
C19_Witness ==
    /\ Op = "subtransaction"
    /\ TargetBefore.kind = "nested_subtransaction"
    /\ result.before.open
    /\ Len(result.sent) = 1
    /\ result.sent[1].stmt.verb = "SAVEPOINT"
    /\ ~result.sent[1].ok
    /\ result.outcome = "server_error"

----------------------------------------------------------------------------
\* The exits of the last call that send a rollback from a destructor.
RollingBack ==
    SelectSeq(result.exits, LAMBDA e : e.kind # "autocommit_transaction")

\* C20: a transaction object exists as long as a subtransaction created from
\* it, directly or transitively, exists, whatever handles the caller has
\* dropped; the rollbacks of destructors are therefore sent innermost first,
\* and a transaction's own commit or rollback statement is never sent while
\* one of its descendants is unresolved.
C20_ParentOutlivesSubtransactions ==
    /\ \A a \in Addr :
           (tx[a].live /\ tx[a].kind \in SubKinds)
               => /\ tx[a].m_previous # NULL
                  /\ tx[tx[a].m_previous].live
    /\ \A a \in Addr :
           (tx[a].live /\ tx[a].m_connection)
               => \A p \in Chain(a) : tx[p].live /\ tx[p].m_connection
    /\ Op = "release"
           => /\ \A i \in 1..(Len(result.exits) - 1) :
                     result.exits[i + 1].t = result.exits[i].below
              /\ result.before.open
                     => /\ Len(result.sent) = Len(RollingBack)
                        /\ \A i \in 1..Len(result.sent) :
                               /\ result.sent[i].by = RollingBack[i].t
                               /\ result.sent[i].cur = RollingBack[i].t
    /\ (Op \in {"commit", "rollback"} /\ result.sent # <<>>)
           => \A d \in Addr \ {Target} :
                  (tx[d].live /\ Target \in Chain(d)) => ~tx[d].m_connection

\* The caller had dropped its handles to a top-level transaction and to the
\* subtransaction created from it; dropping the handle to the innermost
\* subtransaction destroyed all three, each rolled back in turn.
C20_Witness ==
    /\ Op = "release"
    /\ Len(result.sent) = 3
    /\ result.sent[1].stmt = Stmt("ROLLBACK TO", Target)
    /\ result.sent[2].stmt.verb = "ROLLBACK TO"
    /\ result.sent[3].stmt.verb = "ROLLBACK TRANSACTION"
    /\ TargetBefore.m_previous = result.sent[2].by
    /\ \A a \in Addr : ~tx[a].live

----------------------------------------------------------------------------
\* C21: destroying a transaction that is already terminal sends no statement
\* and does not change the connection's current-transaction pointer, also
\* when another transaction has become current in the meantime: the
\* statements and the pointer changes of a call that destroys it are those of
\* the active transactions destroyed along with it, and there are none when
\* it is destroyed alone.
C21_TerminalDestroyedSilently ==
    (Op = "release" /\ ~TargetBefore.m_connection)
        => /\ SentBy(Target) = {}
           /\ \A i \in 1..Len(result.exits) : result.exits[i].t # Target
           /\ \A i \in 1..Len(result.sent) :
                  \E j \in 1..Len(result.exits) :
                      result.exits[j].t = result.sent[i].by
           /\ m_current_transaction =
                  (IF result.exits = <<>> THEN WasCurrent
                   ELSE result.exits[Len(result.exits)].after)

\* A committed or rolled back top-level transaction is destroyed while a
\* later transaction is the current one.
C21_Witness ==
    /\ Op = "release"
    /\ TargetBefore.kind = "top_level_transaction"
    /\ ~TargetBefore.m_connection
    /\ ~tx[Target].live
    /\ WasCurrent # NULL
    /\ WasCurrent # Target
    /\ m_current_transaction = WasCurrent
    /\ result.sent = <<>>

----------------------------------------------------------------------------
\* C22: when an active transaction is destroyed while its connection is not
\* open, no rollback statement is sent and the current-transaction pointer is
\* still restored: to null for an autocommit or top-level transaction, to
\* the previous transaction for a subtransaction.
C22_DestroyedWhenClosed ==
    (Op = "release" /\ ~result.before.open)
        => /\ result.sent = <<>>
           /\ result.outcome = "none"
           /\ (TargetBefore.m_connection /\ ~tx[Target].live)
                  => /\ result.exits # <<>>
                     /\ result.exits[1].t = Target
                     /\ result.exits[1].after =
                            (IF TargetBefore.kind \in BaseKinds THEN NULL
                             ELSE TargetBefore.m_previous)
           /\ \A i \in 1..Len(result.exits) :
                  result.exits[i].after =
                      (IF result.exits[i].kind \in BaseKinds THEN NULL
                       ELSE result.exits[i].below)
           /\ m_current_transaction =
                  (IF result.exits = <<>> THEN WasCurrent
                   ELSE result.exits[Len(result.exits)].after)

\* The connection was lost while a nested subtransaction was current; its
\* destruction sends nothing and makes its parent current, which the caller
\* still holds.
C22_Witness ==
    /\ Op = "release"
    /\ ~result.before.open
    /\ TargetBefore.kind = "nested_subtransaction"
    /\ TargetBefore.m_connection
    /\ ~tx[Target].live
    /\ Len(result.exits) = 1
    /\ m_current_transaction = TargetBefore.m_previous
    /\ m_current_transaction \in handles

----------------------------------------------------------------------------
SavepointVerbs == {"SAVEPOINT", "RELEASE SAVEPOINT", "ROLLBACK TO"}

\* The server as the i-th statement of the call being made finds it.
ServedBefore(i) == Serve(server, SubSeq(result'.sent, 1, i - 1), 1)

\* The client's side of the agreement: a transaction that is not an
\* autocommit transaction is the current one.
ClientInTransaction ==
    /\ m_current_transaction # NULL
    /\ tx[m_current_transaction].kind # "autocommit_transaction"

\* No statement has failed so far, the session is up, and every savepoint
\* statement of the call being made finds the transaction block open.
SavepointsFindBlockOpen ==
    (expect.clean /\ is_open /\ is_open')
        => \A i \in 1..Len(result'.sent) :
               result'.sent[i].stmt.verb \in SavepointVerbs
                   => ServedBefore(i).status = "open"

\* C23: as long as no statement has failed at the server and the connection
\* is open, after every operation the server has a transaction open exactly
\* when the connection's current transaction is not null and is not an
\* autocommit transaction, and every SAVEPOINT, RELEASE SAVEPOINT and
\* ROLLBACK TO is sent while that transaction is open at the server.
C23_ClientAndServerAgree ==
    /\ []((expect.clean /\ is_open)
              => /\ server.status \in {"idle", "open"}
                 /\ server.status = "open" <=> ClientInTransaction)
    /\ [][SavepointsFindBlockOpen]_<<vars, dbvars, poolvars, leasevars>>

\* With no statement failed, a nested subtransaction has been created
\* inside a top-level transaction: its SAVEPOINT found the block open, and
\* the block is open with the subtransaction current.
C23_Witness ==
    /\ expect.clean
    /\ is_open
    /\ Op = "subtransaction"
    /\ result.made # NULL
    /\ Len(result.sent) = 1
    /\ result.sent[1].stmt = Stmt("SAVEPOINT", result.made)
    /\ result.sent[1].ok
    /\ server.status = "open"
    /\ Len(server.levels) = 2
    /\ m_current_transaction = result.made

----------------------------------------------------------------------------
====
